---- MODULE Spec2Model ----
(***************************************************************************)
(* Model of the table-driven shanten engine (src/src/shanten.rs).          *)
(*                                                                         *)
(* The engine is a set of pure functions over a 34-slot tile-count vector  *)
(* and two immutable lookup tables behind lazily initialised statics.      *)
(* Three specifications drive it:                                          *)
(*   Spec       a caller picks a hand and calls one of the hand functions  *)
(*   SpecMerge  the group-merge steps add_suhai / add_jihai on their own   *)
(*   SpecTable  the lazily loaded table: read_table, ensure_init, get      *)
(*                                                                         *)
(* A call that panics (an out-of-bounds slot index, a failed assert_eq!)   *)
(* is the result Panic; a call that returns v is the result Ok(v).         *)
(***************************************************************************)
EXTENDS Integers, Sequences, FiniteSets, TLC

VARIABLES
  tiles,    \* Spec: the hand handed to the called function, [0..33 -> 0..4]
  lhs,      \* SpecMerge: the accumulator handed to add_suhai / add_jihai
  raw,      \* SpecTable: the asset decompressed, Ok(bytes), or Panic
  length,   \* SpecTable: the entry count the static declares
  table,    \* SpecTable: the LazyLock cell, [state, entries]
  op,       \* the function called last ("none" before any call)
  arg,      \* its scalar arguments (len_div3, suit, <<index, m>>, index)
  out       \* its result, Ok(v) or Panic

vars == <<tiles, lhs, raw, length, table, op, arg, out>>

----------------------------------------------------------------------------
(* Results and integer helpers *)

Ok(v) == [ok |-> TRUE, val |-> v]

Panic == [ok |-> FALSE, val |-> 0]

\* A panic unwinds through the caller: the rest of the caller, F, runs on the
\* value of a call that returned.
Then(r, F(_)) == IF r.ok THEN F(r.val) ELSE Panic

MinOf(S) == CHOOSE a \in S : \A b \in S : a <= b

min(a, b) == IF a <= b THEN a ELSE b

\* u8::saturating_sub
saturating_sub(a, b) == IF a >= b THEN a - b ELSE 0

\* u8::saturating_add
saturating_add(a, b) == IF a + b > 255 THEN 255 ELSE a + b

\* `x as i8` of a u8
as_i8(x) == IF x % 256 > 127 THEN (x % 256) - 256 ELSE x % 256

\* `x as u8` of a u16
as_u8(x) == x % 256

----------------------------------------------------------------------------
(* Program constants *)

JIHAI_TABLE_SIZE == 78032

SUHAI_TABLE_SIZE == 1940777

\* the radix of sum_tiles: a slot holds 0..4 copies
Base == 5

\* [u8; 10]: slots 0..4 without a pair, 5..9 with a pair
EntryLen == 10

\* tiles: &[u8; 34]
NumKinds == 34

Kinds == 0..(NumKinds - 1)

Slots == 0..(EntryLen - 1)

\* unwrap_or_default() of a missing entry
DefaultEntry == [s \in Slots |-> 0]

\* tiles[lo..hi] as a sequence
Slice(t, lo, hi) == [i \in 1..(hi - lo) |-> t[lo + i - 1]]

RECURSIVE sum_from(_, _, _)
sum_from(g, i, acc) ==
  IF i > Len(g) THEN acc ELSE sum_from(g, i + 1, acc * Base + g[i])

\* tiles.iter().fold(0, |acc, &x| acc * 5 + x as usize)
sum_tiles(g) == sum_from(g, 1, 0)

RECURSIVE count_from(_, _)
count_from(t, i) == IF i >= NumKinds THEN 0 ELSE t[i] + count_from(t, i + 1)

\* tiles.iter().map(|&x| x as u16).sum()
count_tiles(t) == count_from(t, 0)

----------------------------------------------------------------------------
(* The two lookup assets (data/shanten_suhai.bin.gz, shanten_jihai.bin.gz). *)
(* The assets are precomputed data: entry idx belongs to the group whose    *)
(* counts are the base-5 digits of idx; slot j (0..4) holds the fewest      *)
(* tiles the group still lacks to hold j melds, slot 5+j the fewest it      *)
(* lacks to hold j melds and a pair, no kind used more than four times.     *)
(* A meld is a triplet or, in a suit group only, a run of three ranks.      *)

\* a slot is one 4-bit value (b & 0b1111)
NibbleMax == 15

\* the digits of idx, most significant first: the inverse of sum_tiles
RECURSIVE Digits(_, _)
Digits(idx, n) ==
  IF n = 0 THEN << >> ELSE Append(Digits(idx \div Base, n - 1), idx % Base)

\* Forces a function to its table of values.
Tabulate(f) == f @@ << >>

\* A partial choice of melds, scanned rank by rank: <<a, b, j, p>> with
\* a runs begun two ranks back, b runs begun one rank back, j melds and
\* p pairs placed so far.
Partial ==
  {s \in (0..4) \X (0..4) \X (0..4) \X (0..1) : s[1] + s[2] <= s[3]}

\* no sum of costs reaches this
NoCost == NibbleMax * 4

CostStart == [s \in Partial |-> IF s = <<0, 0, 0, 0>> THEN 0 ELSE NoCost]

\* The cheapest way to reach each partial choice after one more rank holding
\* c tiles. ch = <<a0, t, q>>: a0 runs begun two ranks back, t triplets and
\* q pairs of this rank; s[2] runs begin at this rank.
CostStep(L, c, runs) ==
  [s \in Partial |->
     IF ~runs /\ s[2] > 0 THEN NoCost
     ELSE MinOf({NoCost} \cup
       { LET used == ch[1] + s[1] + s[2] + 3 * ch[2] + 2 * ch[3]
         IN  L[<<ch[1], s[1], s[3] - s[2] - ch[2], s[4] - ch[3]>>]
               + (IF used > c THEN used - c ELSE 0) :
         ch \in { x \in (0..4) \X (0..1) \X (0..1) :
                    /\ s[3] - s[2] - x[2] >= x[1] + s[1]
                    /\ s[4] - x[3] >= 0
                    /\ x[1] + s[1] + s[2] + 3 * x[2] + 2 * x[3] <= 4 } })]

RECURSIVE CostScan(_, _, _, _)
CostScan(L, g, i, runs) ==
  IF i > Len(g) THEN L
  ELSE CostScan(Tabulate(CostStep(L, g[i], runs /\ i + 2 <= Len(g))),
                g, i + 1, runs)

\* the entry of the group with counts g
GroupEntry(g, runs) ==
  LET L == CostScan(CostStart, g, 1, runs)
  IN  Tabulate([k \in Slots |-> min(NibbleMax, L[<<0, 0, k % 5, k \div 5>>])])

----------------------------------------------------------------------------
(* The table loader *)

\* for (i, b) in raw.into_iter().enumerate(): i counts from 0, bytes[i + 1]
\* is byte i; entry is the scratch buffer, ret the entries pushed so far
RECURSIVE read_loop(_, _, _, _)
read_loop(bytes, i, entry, ret) ==
  IF i >= Len(bytes) THEN ret
  ELSE LET b  == bytes[i + 1]
           e1 == [entry EXCEPT ![(i * 2) % 10]     = b % 16,
                               ![((i * 2) % 10) + 1] = (b \div 16) % 16]
       IN  read_loop(bytes, i + 1, e1,
                     IF (i + 1) % 5 = 0 THEN Append(ret, e1) ELSE ret)

\* read_table without its closing assert_eq!
read_table_unchecked(gunzipped, len) ==
  Then(gunzipped, LAMBDA bytes : Ok(read_loop(bytes, 0, DefaultEntry, << >>)))

\* gz.read_to_end(&mut raw).unwrap() is the result `gunzipped`: the bytes, or
\* Panic for a stream that does not decompress. assert_eq!(ret.len(), length)
read_table(gunzipped, len) ==
  Then(gunzipped, LAMBDA bytes :
    LET ret == read_loop(bytes, 0, DefaultEntry, << >>)
    IN  IF Len(ret) = len THEN Ok(ret) ELSE Panic)

\* The LazyLock cell before its first access.
NoTable == [state |-> "uninit", entries |-> << >>]

\* LazyLock::force: the first access runs read_table; a panic in it poisons
\* the cell, and every later access panics too.
force(cell, gunzipped, len) ==
  IF cell.state # "uninit" THEN cell
  ELSE LET r == read_table(gunzipped, len)
       IN  IF r.ok THEN [state |-> "ready", entries |-> r.val]
           ELSE [state |-> "poisoned", entries |-> << >>]

\* TABLE.get(index).copied().unwrap_or_default() on the forced cell
table_get(cell, index) ==
  IF cell.state # "ready" THEN Panic
  ELSE IF index < Len(cell.entries) THEN Ok(cell.entries[index + 1])
  ELSE Ok(DefaultEntry)

\* assert_eq!(TABLE.len(), TABLE_SIZE) on the forced cell
ensure_init(cell, len) ==
  IF cell.state = "ready" /\ Len(cell.entries) = len THEN Ok(0) ELSE Panic

----------------------------------------------------------------------------
(* Index helpers and the sub-hands of the two restriction distances *)

is_terminal_or_honor(idx) ==
  idx \in {0, 8, 9, 17, 18, 26} \/ idx \in 27..33

is_man(idx) == idx <= 8

is_pin(idx) == idx \in 9..17

is_sou(idx) == idx \in 18..26

is_honor(idx) == idx >= 27

is_main_suit(idx, suit) ==
  CASE suit = 0 -> is_man(idx)
    [] suit = 1 -> is_pin(idx)
    [] suit = 2 -> is_sou(idx)
    [] OTHER -> FALSE

\* tanyao_distance: the hand with its terminal and honor tiles left out
mid_only(t) ==
  [i \in Kinds |-> IF t[i] = 0 \/ is_terminal_or_honor(i) THEN 0 ELSE t[i]]

\* honitsu_distance_for_suit: the chosen suit and the honors
filtered(t, suit) ==
  [i \in Kinds |->
     IF t[i] # 0 /\ (is_main_suit(i, suit) \/ is_honor(i)) THEN t[i] ELSE 0]

\* eval_discards: let mut tmp = *tiles; tmp[i] -= 1
discard(t, i) == [t EXCEPT ![i] = t[i] - 1]

----------------------------------------------------------------------------
(* The hands a caller passes in *)

\* the most tiles of an enumerated hand
MaxTiles == 4

\* the kinds an enumerated hand draws from: 1m 2m 3m, 5p, 9s, East
ActiveKinds == {0, 1, 2, 13, 26, 27}

\* the hand holding c copies of kind k for each <<k, c>> of S
HandOf(S) ==
  [k \in Kinds |-> IF \E e \in S : e[1] = k
                   THEN (CHOOSE e \in S : e[1] = k)[2] ELSE 0]

RECURSIVE SumOver(_, _)
SumOver(f, S) ==
  IF S = {} THEN 0
  ELSE LET k == CHOOSE x \in S : TRUE IN f[k] + SumOver(f, S \ {k})

\* every hand of at most MaxTiles tiles over the active kinds
SmallHands ==
  { [k \in Kinds |-> IF k \in ActiveKinds THEN f[k] ELSE 0] :
      f \in { f \in [ActiveKinds -> 0..(Base - 1)] :
                SumOver(f, ActiveKinds) <= MaxTiles } }

\* 222m 333m 444m 456p 55s: three triplets, a run and a pair (14 tiles)
HandComplete ==
  HandOf({<<1, 3>>, <<2, 3>>, <<3, 3>>, <<12, 1>>, <<13, 1>>, <<14, 1>>,
          <<22, 2>>})

\* 11m 22m 33m 55p 99s EE SS: seven distinct pairs (14 tiles)
HandSevenPairs ==
  HandOf({<<0, 2>>, <<1, 2>>, <<2, 2>>, <<13, 2>>, <<26, 2>>, <<27, 2>>,
          <<28, 2>>})

\* the same with one South only: seven kinds, six pairs (13 tiles)
HandSixPairs == [HandSevenPairs EXCEPT ![28] = 1]

\* the thirteen terminal and honor kinds, East twice (14 tiles)
HandOrphans ==
  [k \in Kinds |-> IF k = 27 THEN 2 ELSE IF is_terminal_or_honor(k) THEN 1 ELSE 0]

\* 1111m 2222m 3333m 44m (14 tiles)
HandFourFold == HandOf({<<0, 4>>, <<1, 4>>, <<2, 4>>, <<3, 2>>})

\* 11m 22m 33m 55m 66m 7m 11p SS (15 tiles)
HandFifteen ==
  HandOf({<<0, 2>>, <<1, 2>>, <<2, 2>>, <<4, 2>>, <<5, 2>>, <<6, 1>>,
          <<9, 2>>, <<28, 2>>})

\* 2222m 3333m 4444m 5555m (16 tiles, one suit, no terminal)
HandSixteen == HandOf({<<1, 4>>, <<2, 4>>, <<3, 4>>, <<4, 4>>})

NamedHands ==
  {HandComplete, HandSevenPairs, HandSixPairs, HandOrphans, HandFourFold,
   HandFifteen, HandSixteen}

Hands == SmallHands \cup NamedHands

----------------------------------------------------------------------------
(* The loaded tables, restricted to the entries the hands above consult *)

\* every hand a table lookup is made for: the callers' hands, their
\* one-tile discards, and the sub-hands of the two restriction distances
ConsultedHands ==
  LET A == Hands \cup {discard(h, i) : <<h, i>> \in
                         {x \in Hands \X Kinds : x[1][x[2]] > 0}}
  IN  A \cup {mid_only(h) : h \in A}
        \cup {filtered(h[1], h[2]) : h \in A \X (0..2)}

SuhaiIndices ==
  {i \in {sum_tiles(Slice(h[1], 9 * h[2], 9 * h[2] + 9)) :
            h \in ConsultedHands \X (0..2)} : i < SUHAI_TABLE_SIZE}

JihaiIndices ==
  {i \in {sum_tiles(Slice(h, 27, 34)) : h \in ConsultedHands} :
     i < JIHAI_TABLE_SIZE}

SUHAI_TABLE == Tabulate([i \in SuhaiIndices |-> GroupEntry(Digits(i, 9), TRUE)])

JIHAI_TABLE == Tabulate([i \in JihaiIndices |-> GroupEntry(Digits(i, 7), FALSE)])

\* a lookup that falls back to the first entry in place of the default
suhai_get_first(index) ==
  IF index < SUHAI_TABLE_SIZE THEN SUHAI_TABLE[index] ELSE SUHAI_TABLE[0]

\* SUHAI_TABLE.get(index).copied().unwrap_or_default()
suhai_get(index) ==
  IF index < SUHAI_TABLE_SIZE THEN SUHAI_TABLE[index] ELSE DefaultEntry

\* JIHAI_TABLE.get(index).copied().unwrap_or_default()
jihai_get(index) ==
  IF index < JIHAI_TABLE_SIZE THEN JIHAI_TABLE[index] ELSE DefaultEntry

----------------------------------------------------------------------------
(* The group-merge engine *)

\* (lo..=hi).rev()
RevRange(lo, hi) == [i \in 1..(hi - lo + 1) |-> hi - i + 1]

\* the body of the pair-slot loop: the value written to lhs[j]
pair_sht(l, tab, j) ==
  MinOf({l[j] + tab[0], l[0] + tab[j]}
        \cup {l[k] + tab[j - k] : k \in 5..(j - 1)}
        \cup {l[j - k] + tab[k] : k \in 5..(j - 1)})

\* the body of the non-pair loop: the value written to lhs[j]
plain_sht(l, tab, j) ==
  MinOf({l[j] + tab[0]} \cup {l[k] + tab[j - k] : k \in 0..(j - 1)})

\* for j in js { lhs[j] = pair_sht }, in place
RECURSIVE pair_loop(_, _, _)
pair_loop(l, tab, js) ==
  IF js = << >> THEN l
  ELSE pair_loop([l EXCEPT ![Head(js)] = pair_sht(l, tab, Head(js))],
                 tab, Tail(js))

\* for j in js { lhs[j] = plain_sht }, in place
RECURSIVE plain_loop(_, _, _)
plain_loop(l, tab, js) ==
  IF js = << >> THEN l
  ELSE plain_loop([l EXCEPT ![Head(js)] = plain_sht(l, tab, Head(js))],
                  tab, Tail(js))

\* the first slot written is lhs[5 + m]: out of bounds when 5 + m > 9
\* add_suhai with its two loops in the other order
add_suhai_plain_first(l, index, m) ==
  IF 5 + m >= EntryLen THEN Panic
  ELSE LET tab == suhai_get(index)
       IN  Ok(pair_loop(plain_loop(l, tab, RevRange(0, m)), tab, RevRange(5, 5 + m)))

add_suhai(l, index, m) ==
  IF 5 + m >= EntryLen THEN Panic
  ELSE LET tab == suhai_get(index)
       IN  Ok(plain_loop(pair_loop(l, tab, RevRange(5, 5 + m)),
                         tab, RevRange(0, m)))

add_jihai(l, index, m) ==
  IF m + 5 >= EntryLen THEN Panic
  ELSE LET tab == jihai_get(index)
       IN  Ok([l EXCEPT ![m + 5] = pair_sht(l, tab, m + 5)])

----------------------------------------------------------------------------
(* The shanten calculators *)

\* sum_tiles(&tiles[9 * group..9 * group + 9]), the honors for group 3
group_index(t, group) ==
  sum_tiles(Slice(t, 9 * group, IF group = 3 THEN NumKinds ELSE 9 * group + 9))

\* add_suhai(&mut ret, ..) for the groups from `group` to 2, then return
RECURSIVE merge_suhai(_, _, _, _)
merge_suhai(ret, t, group, len_div3) ==
  IF group > 2 THEN Ok(ret)
  ELSE Then(add_suhai(ret, group_index(t, group), len_div3),
            LAMBDA r : merge_suhai(r, t, group + 1, len_div3))

calc_normal(t, len_div3) ==
  Then(merge_suhai(suhai_get(group_index(t, 0)), t, 1, len_div3), LAMBDA r2 :
  Then(add_jihai(r2, group_index(t, 3), len_div3), LAMBDA ret :
  Ok(as_i8(ret[5 + len_div3]) - 1)))

\* the for_each over the kinds held: <<pairs, kinds>>
RECURSIVE chitoi_scan(_, _, _, _)
chitoi_scan(t, i, pairs, kinds) ==
  IF i >= NumKinds THEN <<pairs, kinds>>
  ELSE IF t[i] > 0
       THEN chitoi_scan(t, i + 1, IF t[i] >= 2 THEN pairs + 1 ELSE pairs,
                        kinds + 1)
       ELSE chitoi_scan(t, i + 1, pairs, kinds)

\* calc_chitoi with a signed 7 - kinds in place of the saturating one
chitoi_unsaturated(t) ==
  LET pk == chitoi_scan(t, 0, 0, 0)
  IN  7 - pk[1] + (7 - pk[2]) - 1

calc_chitoi(t) ==
  LET pk      == chitoi_scan(t, 0, 0, 0)
      redunct == as_i8(saturating_sub(7, pk[2]))
  IN  7 - pk[1] + redunct - 1

TERMINAL_INDICES == <<0, 8, 9, 17, 18, 26, 27, 28, 29, 30, 31, 32, 33>>

\* the loop over TERMINAL_INDICES: <<pairs, kinds>>
RECURSIVE kokushi_scan(_, _, _, _)
kokushi_scan(t, n, pairs, kinds) ==
  IF n > Len(TERMINAL_INDICES) THEN <<pairs, kinds>>
  ELSE LET c == t[TERMINAL_INDICES[n]]
       IN  IF c > 0
           THEN kokushi_scan(t, n + 1, IF c >= 2 THEN pairs + 1 ELSE pairs,
                             kinds + 1)
           ELSE kokushi_scan(t, n + 1, pairs, kinds)

\* calc_kokushi scanning all 34 kinds in place of TERMINAL_INDICES
kokushi_any_kind(t) ==
  LET pk      == chitoi_scan(t, 0, 0, 0)
      redunct == IF pk[1] > 0 THEN 1 ELSE 0
  IN  14 - pk[2] - redunct - 1

calc_kokushi(t) ==
  LET pk      == kokushi_scan(t, 1, 0, 0)
      redunct == IF pk[1] > 0 THEN 1 ELSE 0
  IN  14 - pk[2] - redunct - 1

\* calc_all with the thresholds `shanten < 0` and `shanten >= 0`
calc_all_strict(t, len_div3) ==
  Then(calc_normal(t, len_div3), LAMBDA n :
    IF n < 0 \/ len_div3 < 4 THEN Ok(n)
    ELSE LET shanten == min(n, calc_chitoi(t))
         IN  IF shanten >= 0 THEN Ok(min(shanten, calc_kokushi(t)))
             ELSE Ok(shanten))

\* calc_all taking the seven-pairs value in place of the minimum
calc_all_chitoi_only(t, len_div3) ==
  Then(calc_normal(t, len_div3), LAMBDA n :
    IF n <= 0 \/ len_div3 < 4 THEN Ok(n) ELSE Ok(calc_chitoi(t)))

calc_all(t, len_div3) ==
  Then(calc_normal(t, len_div3), LAMBDA n :
    IF n <= 0 \/ len_div3 < 4 THEN Ok(n)
    ELSE LET shanten == min(n, calc_chitoi(t))
         IN  IF shanten > 0 THEN Ok(min(shanten, calc_kokushi(t)))
             ELSE Ok(shanten))

----------------------------------------------------------------------------
(* The restriction distances *)

\* t_count = t_count.saturating_add(c) over the terminal and honor kinds
RECURSIVE t_count_from(_, _, _)
t_count_from(t, i, acc) ==
  IF i >= NumKinds THEN acc
  ELSE IF t[i] # 0 /\ is_terminal_or_honor(i)
       THEN t_count_from(t, i + 1, saturating_add(acc, t[i]))
       ELSE t_count_from(t, i + 1, acc)

\* tanyao_distance without the t_count term
tanyao_shanten_only(t) ==
  LET mid       == mid_only(t)
      t_count   == t_count_from(t, 0, 0)
      count_mid == count_tiles(mid)
  IN  IF count_mid = 0 THEN Ok(as_i8(t_count) + 8)
      ELSE calc_all(mid, as_u8(count_mid \div 3))

tanyao_distance(t) ==
  LET mid       == mid_only(t)
      t_count   == t_count_from(t, 0, 0)
      count_mid == count_tiles(mid)
  IN  IF count_mid = 0 THEN Ok(as_i8(t_count) + 8)
      ELSE Then(calc_all(mid, as_u8(count_mid \div 3)), LAMBDA shanten_mid :
             Ok(as_i8(t_count) + shanten_mid))

\* off_color = off_color.saturating_add(c) over the other suits
RECURSIVE off_color_from(_, _, _, _)
off_color_from(t, suit, i, acc) ==
  IF i >= NumKinds THEN acc
  ELSE IF t[i] # 0 /\ ~(is_main_suit(i, suit) \/ is_honor(i))
       THEN off_color_from(t, suit, i + 1, saturating_add(acc, t[i]))
       ELSE off_color_from(t, suit, i + 1, acc)

honitsu_distance_for_suit(t, suit) ==
  LET f         == filtered(t, suit)
      off_color == off_color_from(t, suit, 0, 0)
      count_f   == count_tiles(f)
  IN  IF count_f = 0 THEN Ok(as_i8(off_color) + 8)
      ELSE Then(calc_all(f, as_u8(count_f \div 3)), LAMBDA shanten_filtered :
             Ok(as_i8(off_color) + shanten_filtered))

----------------------------------------------------------------------------
(* The evaluators *)

\* [honitsu_distance_for_suit(t, 0), (t, 1), (t, 2)] from `suit` on
RECURSIVE honitsu_from(_, _, _)
honitsu_from(t, suit, acc) ==
  IF suit > 2 THEN Ok(acc)
  ELSE Then(honitsu_distance_for_suit(t, suit),
            LAMBDA h : honitsu_from(t, suit + 1, Append(acc, h)))

eval_hand(t) ==
  Then(calc_normal(t, as_u8(count_tiles(t) \div 3)), LAMBDA normal :
  Then(tanyao_distance(t), LAMBDA tanyao :
  Then(honitsu_from(t, 0, << >>), LAMBDA honitsu :
  Ok([normal_shanten   |-> normal,
      chiitoi_shanten  |-> calc_chitoi(t),
      kokushi_shanten  |-> calc_kokushi(t),
      tanyao_distance  |-> tanyao,
      honitsu_distance |-> honitsu]))))

\* the body of the loop of eval_discards for one kind held
discard_metrics(t, i) ==
  LET tmp == discard(t, i)
  IN  Then(calc_normal(tmp, as_u8(count_tiles(tmp) \div 3)), LAMBDA normal :
      Then(tanyao_distance(tmp), LAMBDA tanyao :
      Then(honitsu_from(tmp, 0, << >>), LAMBDA honitsu :
      Ok([tile_index       |-> as_u8(i),
          normal_shanten   |-> normal,
          chiitoi_shanten  |-> calc_chitoi(tmp),
          kokushi_shanten  |-> calc_kokushi(tmp),
          tanyao_distance  |-> tanyao,
          honitsu_distance |-> honitsu]))))

\* for i in 0..34 { if tiles[i] == 0 { continue; } ... result.push(..) }
RECURSIVE discards_from(_, _, _)
discards_from(t, i, result) ==
  IF i >= NumKinds THEN Ok(result)
  ELSE IF t[i] = 0 THEN discards_from(t, i + 1, result)
  ELSE Then(discard_metrics(t, i),
            LAMBDA d : discards_from(t, i + 1, Append(result, d)))

eval_discards(t) == discards_from(t, 0, << >>)

----------------------------------------------------------------------------
(* Spec: a caller picks a hand and calls one function on it *)

\* the largest meld target a caller passes to calc_normal / calc_all
MaxTarget == 5

Init ==
  /\ tiles \in Hands
  /\ lhs = DefaultEntry
  /\ raw = Ok(<< >>)
  /\ length = 0
  /\ table = NoTable
  /\ op = "none"
  /\ arg = 0
  /\ out = Ok(0)

Call(name, a, result) ==
  /\ op = "none"
  /\ op' = name
  /\ arg' = a
  /\ out' = result
  /\ UNCHANGED <<tiles, lhs, raw, length, table>>

CalcNormal == \E t \in 0..MaxTarget : Call("calc_normal", t, calc_normal(tiles, t))

CalcChitoi == Call("calc_chitoi", 0, Ok(calc_chitoi(tiles)))

CalcKokushi == Call("calc_kokushi", 0, Ok(calc_kokushi(tiles)))

CalcAll == \E t \in 0..MaxTarget : Call("calc_all", t, calc_all(tiles, t))

TanyaoDistance == Call("tanyao_distance", 0, tanyao_distance(tiles))

HonitsuDistance ==
  \E s \in 0..2 :
    Call("honitsu_distance_for_suit", s, honitsu_distance_for_suit(tiles, s))

EvalHand == Call("eval_hand", 0, eval_hand(tiles))

EvalDiscards == Call("eval_discards", 0, eval_discards(tiles))

Next ==
  \/ CalcNormal
  \/ CalcChitoi
  \/ CalcKokushi
  \/ CalcAll
  \/ TanyaoDistance
  \/ HonitsuDistance
  \/ EvalHand
  \/ EvalDiscards

Spec == Init /\ [][Next]_vars

----------------------------------------------------------------------------
(* SpecMerge: the merge steps on their own, on the accumulators and the    *)
(* group indices that calc_normal passes them for the named hands          *)

MergeIndices == {group_index(h[1], h[2]) : h \in NamedHands \X (0..2)}

MergeHonorIndices == {group_index(h, 3) : h \in NamedHands}

\* a seed entry, or a seed merged once with the whole meld budget
MergeAccs ==
  LET seeds == {suhai_get(i) : i \in MergeIndices}
  IN  seeds \cup {add_suhai(x[1], x[2], 4).val : x \in seeds \X MergeIndices}

InitMerge ==
  /\ tiles = HandOf({})
  /\ lhs \in MergeAccs
  /\ raw = Ok(<< >>)
  /\ length = 0
  /\ table = NoTable
  /\ op = "none"
  /\ arg = 0
  /\ out = Ok(0)

AddSuhai ==
  \E index \in MergeIndices, m \in 0..MaxTarget :
    Call("add_suhai", <<index, m>>, add_suhai(lhs, index, m))

AddJihai ==
  \E index \in MergeHonorIndices, m \in 0..MaxTarget :
    Call("add_jihai", <<index, m>>, add_jihai(lhs, index, m))

NextMerge ==
  \/ AddSuhai
  \/ AddJihai

SpecMerge == InitMerge /\ [][NextMerge]_vars

----------------------------------------------------------------------------
(* SpecTable: one table static, from its asset to its lookups *)

\* the most bytes of a decompressed asset
MaxBytes == 11

\* the largest entry count a static declares
MaxEntries == 2

\* the byte values of an asset: 0x21 and 0xE7
ByteVals == {33, 231}

RECURSIVE SeqsUpTo(_, _)
SeqsUpTo(S, n) ==
  IF n = 0 THEN {<< >>}
  ELSE LET shorter == SeqsUpTo(S, n - 1)
       IN  shorter \cup {Append(q[1], q[2]) :
                           q \in {x \in shorter : Len(x) = n - 1} \X S}

InitTable ==
  /\ tiles = HandOf({})
  /\ lhs = DefaultEntry
  /\ raw \in {Ok(b) : b \in SeqsUpTo(ByteVals, MaxBytes)} \cup {Panic}
  /\ length \in 0..MaxEntries
  /\ table = NoTable
  /\ op = "none"
  /\ arg = 0
  /\ out = Ok(0)

Access(name, a, result) ==
  /\ table' = force(table, raw, length)
  /\ op' = name
  /\ arg' = a
  /\ out' = result
  /\ UNCHANGED <<tiles, lhs, raw, length>>

Get ==
  \E index \in 0..MaxEntries :
    Access("get", index, table_get(force(table, raw, length), index))

EnsureInit ==
  Access("ensure_init", 0, ensure_init(force(table, raw, length), length))

NextTable ==
  \/ Get
  \/ EnsureInit

SpecTable == InitTable /\ [][NextTable]_vars

----------------------------------------------------------------------------
(* Properties of Spec *)

\* C1: eval_discards returns one entry per kind held and none for the kinds
\* not held, in strictly ascending tile_index order, and the metrics of the
\* entry for kind i are those of eval_hand on the hand with tiles[i]
\* decremented by one.
C1_DiscardsAreEvalHands ==
  op = "eval_discards" =>
    /\ out.ok
    /\ LET held == {i \in Kinds : tiles[i] > 0}
           n    == Len(out.val)
       IN  /\ n = Cardinality(held)
           /\ {out.val[k].tile_index : k \in 1..n} = held
           /\ \A k \in 1..(n - 1) :
                out.val[k].tile_index < out.val[k + 1].tile_index
           /\ \A k \in 1..n :
                LET e == out.val[k]
                    h == eval_hand(discard(tiles, e.tile_index))
                IN  /\ h.ok
                    /\ h.val.normal_shanten = e.normal_shanten
                    /\ h.val.chiitoi_shanten = e.chiitoi_shanten
                    /\ h.val.kokushi_shanten = e.kokushi_shanten
                    /\ h.val.tanyao_distance = e.tanyao_distance
                    /\ h.val.honitsu_distance = e.honitsu_distance

\* C2 as stated: tanyao_distance and honitsu_distance_for_suit are at least 0
\* on every legal hand.
C2_DistancesNonNegative ==
  op \in {"tanyao_distance", "honitsu_distance_for_suit"} =>
    out.ok /\ out.val >= 0

\* C2, amended: a restriction distance whose sub-hand has at most 14 tiles
\* is at least -1, and it is -1 only when no tile has to go (the terminal and
\* honor count, or the off-colour count, is 0) and the sub-hand is complete
\* at its own meld target; on a sub-hand of 15 tiles or more the call panics.
C2_DistancesAtLeastMinusOne ==
  /\ op = "tanyao_distance" =>
       LET mid == mid_only(tiles)
       IN  IF count_tiles(mid) >= 15 THEN ~out.ok
           ELSE /\ out.ok
                /\ out.val >= -1
                /\ out.val = -1 =>
                     /\ \A i \in Kinds : is_terminal_or_honor(i) => tiles[i] = 0
                     /\ calc_all(mid, count_tiles(mid) \div 3) = Ok(-1)
  /\ op = "honitsu_distance_for_suit" =>
       LET f == filtered(tiles, arg)
       IN  IF count_tiles(f) >= 15 THEN ~out.ok
           ELSE /\ out.ok
                /\ out.val >= -1
                /\ out.val = -1 =>
                     /\ f = tiles
                     /\ calc_all(f, count_tiles(f) \div 3) = Ok(-1)

\* 222m 333m 444m 456p 55s has no terminal or honor and is complete: the
\* all-simples distance returned is -1
C2_CompleteSimplesHand ==
  /\ op = "tanyao_distance"
  /\ tiles = HandComplete
  /\ \A i \in Kinds : is_terminal_or_honor(i) => tiles[i] = 0
  /\ out = Ok(-1)

\* C3: for every legal hand of any total, eval_hand's meld target total / 3
\* lies in 0..=4 and the standard shanten it returns is at least -1.
C3_TargetWithinFour ==
  op = "eval_hand" =>
    /\ count_tiles(tiles) \div 3 \in 0..4
    /\ out.ok
    /\ out.val.normal_shanten >= -1

\* C4 as stated: calc_all returns n = calc_normal unchanged when n is negative
\* or t < 4; otherwise r = min(n, calc_chitoi), returned when negative and
\* compared against calc_kokushi when r >= 0.
C4_ComparedFromZero ==
  (op = "calc_all" /\ arg <= 4) =>
    LET n == calc_normal(tiles, arg).val
        r == min(n, calc_chitoi(tiles))
    IN  out = Ok(IF n < 0 \/ arg < 4 THEN n
                 ELSE IF r < 0 THEN r
                 ELSE min(r, calc_kokushi(tiles)))

\* C4, amended: calc_all returns n = calc_normal unchanged when n <= 0 or
\* t < 4; otherwise r = min(n, calc_chitoi), returned when r <= 0 and
\* compared against calc_kokushi only when r > 0. A standard shanten of
\* exactly 0 is returned without looking at seven-pairs or thirteen-orphans.
C4_ComparedAboveZero ==
  (op = "calc_all" /\ arg <= 4) =>
    LET n == calc_normal(tiles, arg).val
        r == min(n, calc_chitoi(tiles))
    IN  out = Ok(IF n <= 0 \/ arg < 4 THEN n
                 ELSE IF r <= 0 THEN r
                 ELSE min(r, calc_kokushi(tiles)))

\* standard shanten 0 at target 4 on a hand of seven pairs and one more
\* tile: calc_all returns 0 although calc_chitoi is -1
C4_ZeroKept ==
  /\ op = "calc_all"
  /\ arg = 4
  /\ calc_normal(tiles, 4) = Ok(0)
  /\ calc_chitoi(tiles) = -1
  /\ out = Ok(0)

\* C5: for every hand and every meld target t in 0..=4,
\* calc_all(tiles, t) <= calc_normal(tiles, t).
C5_AllAtMostNormal ==
  (op = "calc_all" /\ arg <= 4) =>
    out.ok /\ out.val <= calc_normal(tiles, arg).val

\* a hand at target 4 whose combined shanten is below its standard shanten
C5_AllBelowNormal ==
  /\ op = "calc_all"
  /\ arg = 4
  /\ out.ok
  /\ out.val < calc_normal(tiles, 4).val

\* C6: calc_chitoi(tiles) = 6 - pairs + max(0, 7 - kinds), kinds the number
\* of slots with count > 0 and pairs the number of slots with count >= 2.
C6_ChitoiFormula ==
  op = "calc_chitoi" =>
    LET kinds == Cardinality({i \in Kinds : tiles[i] > 0})
        pairs == Cardinality({i \in Kinds : tiles[i] >= 2})
    IN  out = Ok(6 - pairs + (IF 7 - kinds > 0 THEN 7 - kinds ELSE 0))

\* seven kinds held, six of them at least twice: 0
C6_SixPairs ==
  /\ op = "calc_chitoi"
  /\ Cardinality({i \in Kinds : tiles[i] > 0}) = 7
  /\ Cardinality({i \in Kinds : tiles[i] >= 2}) = 6
  /\ out = Ok(0)

\* C7: calc_kokushi(tiles) = 13 - k - d, k the number of the 13 terminal and
\* honor kinds held and d = 1 if one of them is held twice or more, else 0;
\* the other kinds do not affect the result.
C7_KokushiFormula ==
  op = "calc_kokushi" =>
    LET orphans == {0, 8, 9, 17, 18, 26} \cup (27..33)
        k == Cardinality({i \in orphans : tiles[i] > 0})
        d == IF \E i \in orphans : tiles[i] >= 2 THEN 1 ELSE 0
    IN  out = Ok(13 - k - d)

\* all thirteen kinds held, one of them twice: -1
C7_ThirteenOrphans ==
  /\ op = "calc_kokushi"
  /\ \A i \in Kinds : is_terminal_or_honor(i) => tiles[i] > 0
  /\ out = Ok(-1)

\* C10 as stated: for every legal hand the base-5 index of each suit group
\* is below SUHAI_TABLE_SIZE and the index of the honor group below
\* JIHAI_TABLE_SIZE, so calc_normal never takes the all-zero fallback entry.
C10_IndicesInsideTables ==
  op = "calc_normal" =>
    /\ \A group \in 0..2 : group_index(tiles, group) < SUHAI_TABLE_SIZE
    /\ group_index(tiles, 3) < JIHAI_TABLE_SIZE

\* C10, amended: the index of a group reaches its table's size only when the
\* group's first three kinds (in the honor group, first four) are held four
\* times each; calc_normal then takes the all-zero fallback entry and
\* returns, and that entry is the one the group has: it lacks nothing for
\* any number of melds, with or without a pair.
C10_FallbackPastLastEntry ==
  (op = "calc_normal" /\ arg <= 4) =>
    /\ out.ok
    /\ \A group \in 0..2 :
         LET i == group_index(tiles, group)
         IN  i >= SUHAI_TABLE_SIZE =>
               /\ \A r \in 0..2 : tiles[9 * group + r] = 4
               /\ suhai_get(i) = DefaultEntry
               /\ GroupEntry(Digits(i, 9), TRUE) = DefaultEntry
    /\ LET i == group_index(tiles, 3)
       IN  i >= JIHAI_TABLE_SIZE =>
             /\ \A r \in 27..30 : tiles[r] = 4
             /\ jihai_get(i) = DefaultEntry
             /\ GroupEntry(Digits(i, 7), FALSE) = DefaultEntry

\* 1111m 2222m 3333m 44m at target 4: the man index is past the table, the
\* fallback entry is merged, and the hand is found complete
C10_FallbackTaken ==
  /\ op = "calc_normal"
  /\ arg = 4
  /\ group_index(tiles, 0) >= SUHAI_TABLE_SIZE
  /\ out = Ok(-1)

----------------------------------------------------------------------------
(* Properties of SpecTable *)

\* C8: read_table on a decompressed byte sequence and an expected count N
\* fails or returns exactly N entries, entry i holding in slot 2p the low and
\* in slot 2p + 1 the high nibble of byte 5i + p; it fails whenever the number
\* of complete 5-byte entries differs from N, and then no lookup returns a
\* value.
C8_ExactEntriesOrFailure ==
  /\ table.state = "ready" =>
       /\ raw.ok
       /\ Len(table.entries) = length
       /\ \A i \in 0..(length - 1) : \A p \in 0..4 :
            /\ table.entries[i + 1][2 * p] = raw.val[5 * i + p + 1] % 16
            /\ table.entries[i + 1][2 * p + 1] = raw.val[5 * i + p + 1] \div 16
  /\ op # "none" =>
       /\ table.state = "ready" <=> (raw.ok /\ Len(raw.val) \div 5 = length)
       /\ table.state = "poisoned" <=> ~(raw.ok /\ Len(raw.val) \div 5 = length)
       /\ out.ok <=> table.state = "ready"

\* two entries loaded from ten bytes that differ, and a lookup returned the
\* second one
C8_SecondEntryRead ==
  /\ table.state = "ready"
  /\ length = 2
  /\ table.entries[1] # table.entries[2]
  /\ op = "get"
  /\ arg = 1
  /\ out = Ok(table.entries[2])

----------------------------------------------------------------------------
(* Properties of SpecMerge *)

\* C9: add_suhai(acc, index, m) with m in 0..=4 and group entry e computes
\* every new slot from the pre-merge accumulator: for j in 0..=m,
\* acc'[j] = min over k in 0..=j of acc[k] + e[j-k] and acc'[5+j] = min over
\* k in 0..=j of min(acc[5+k] + e[j-k], acc[j-k] + e[5+k]); the slots j and
\* 5 + j for j in m+1..=4 are unchanged.
C9_MergeReadsPreMergeValues ==
  (op = "add_suhai" /\ arg[2] <= 4) =>
    LET m == arg[2]
        e == suhai_get(arg[1])
    IN  /\ out.ok
        /\ \A j \in 0..4 :
             IF j <= m
             THEN /\ out.val[j] = MinOf({lhs[k] + e[j - k] : k \in 0..j})
                  /\ out.val[5 + j] =
                       MinOf({min(lhs[5 + k] + e[j - k], lhs[j - k] + e[5 + k]) :
                                k \in 0..j})
             ELSE /\ out.val[j] = lhs[j]
                  /\ out.val[5 + j] = lhs[5 + j]

\* a merge at m = 4 whose slot 9 is reached only by splitting the melds
\* between the accumulator and the group
C9_SplitMerge ==
  /\ op = "add_suhai"
  /\ arg[2] = 4
  /\ out.ok
  /\ out.val[9] < min(lhs[9] + suhai_get(arg[1])[0], lhs[0] + suhai_get(arg[1])[9])

====
